---- MODULE Spec2Model ----
(***************************************************************************)
(* csv2bufr: validate_mapping_dict, apply_scaling, validate_value, encode  *)
(* and transform of src/csv2bufr/__init__.py as a state machine.           *)
(*                                                                         *)
(* Python values are tagged records [t, n, s]:                             *)
(*   t = "none"                 None                                       *)
(*   t = "int" / "float"        a number; n is the value in HALVES (n = 3  *)
(*                              is 1.5), an int always has an even n       *)
(*   t = "str"                  a string, s its text                       *)
(*   t = "list"                 a list (s names it)                        *)
(*   t = "omitted"              a dict key that is not there               *)
(***************************************************************************)
EXTENDS Integers, Sequences, FiniteSets, TLC

VARIABLES
    mappings,    \* transform's mappings argument
    station,     \* transform's station_metadata argument
    pc,          \* where transform / encode stands
    err,         \* the exception that ended transform ("" while none)
    col_names,   \* transform: header row
    rows_read,   \* transform: rows_read
    cur_len,     \* number of cells of the data row being processed
    data_dict,   \* transform: data_dict of the row being processed
    fi,          \* index in mappings["sequence"] of the element being visited
    own,         \* per element: the value transform's loop computed for it
    calls,       \* encoder calls made on the current bufr_msg handle
    acquired,    \* handles returned by codes_bufr_new_from_samples
    released,    \* handles passed to codes_release
    messages,    \* transform: messages (md5 hex digest -> payload)
    produced,    \* payloads encode has returned so far
    arg,         \* argument of a directly called function
    ret          \* its outcome

vars == <<mappings, station, pc, err, col_names, rows_read, cur_len, data_dict,
          fi, own, calls, acquired, released, messages, produced, arg, ret>>

\* ------------------------------------------------------------------ values

None == [t |-> "none", n |-> 0, s |-> ""]
Omitted == [t |-> "omitted", n |-> 0, s |-> ""]
IntV(i) == [t |-> "int", n |-> 2 * i, s |-> ""]
FloatV(h) == [t |-> "float", n |-> h, s |-> ""]
StrV(x) == [t |-> "str", n |-> 0, s |-> x]
ListV(x) == [t |-> "list", n |-> 0, s |-> x]

\* NUMBERS = (float, int, complex); complex never comes out of csv or json
IsNumber(v) == v.t \in {"int", "float"}

\* MISSING = ("NA", "NaN", "NAN", "None")
MISSING == {StrV("NA"), StrV("NaN"), StrV("NAN"), StrV("None")}

\* NULLIFY_INVALID = True
NULLIFY_INVALID == TRUE

\* the outcome of a call: a returned value or a raised exception
Return(v) == [raised |-> FALSE, value |-> v, error |-> "", names |-> ""]
Raise(kind, key) == [raised |-> TRUE, value |-> None, error |-> kind, names |-> key]

\* ------------------------------------------------------------ apply_scaling

Pow10(k) == IF k = 0 THEN 1 ELSE IF k = 1 THEN 10 ELSE 100

\* value * pow(10, element["scale"]) + element["offset"], in halves; the
\* result is an int only when all three operands are
ScaledNumber(value, scale, offset) ==
    [t |-> IF value.t = "int" /\ scale.t = "int" /\ offset.t = "int"
           THEN "int" ELSE "float",
     n |-> value.n * Pow10(scale.n \div 2) + offset.n,
     s |-> ""]

apply_scaling(value, element) ==
    IF IsNumber(value) /\ element.scale # None /\ element.offset # None
    THEN ScaledNumber(value, element.scale, element.offset)
    ELSE value

\* ----------------------------------------------------------- validate_value

validate_value_MaxIgnored(key, value, valid_min, valid_max, nullify_on_fail) ==
    IF value = None THEN Return(value)
    ELSE IF ~IsNumber(value) THEN Return(value)
    ELSE IF valid_min # None /\ value.n < valid_min.n
         THEN IF nullify_on_fail THEN Return(None) ELSE Raise("ValueError", key)
    ELSE Return(value)

validate_value(key, value, valid_min, valid_max, nullify_on_fail) ==
    IF value = None THEN Return(value)
    ELSE IF ~IsNumber(value) THEN Return(value)
    ELSE IF valid_min # None /\ value.n < valid_min.n
         THEN IF nullify_on_fail THEN Return(None) ELSE Raise("ValueError", key)
    ELSE IF valid_max # None /\ value.n > valid_max.n
         THEN IF nullify_on_fail THEN Return(None) ELSE Raise("ValueError", key)
    ELSE Return(value)

\* ---------------------------------------------------- validate_mapping_dict

\* jsonschema "type": a property that is not there is not checked
IsType(v, types) == v.t = "omitted" \/ v.t \in types

\* file_schema: inputDelayedDescriptorReplicationFactor array or null,
\* sequence an array (m.shape = "bad_sequence" stands for any other type)
FileSchemaOk(m) ==
    /\ IsType(m.idrf, {"list", "none"})
    /\ m.shape # "bad_sequence"

\* element_schema
ElementSchemaOk(e) ==
    /\ IsType(e.key, {"str"})
    /\ IsType(e.column, {"str", "none"})
    /\ IsType(e.valid_min, {"int", "float", "none"})
    /\ IsType(e.valid_max, {"int", "float", "none"})
    /\ IsType(e.scale, {"int", "float", "none"})
    /\ IsType(e.offset, {"int", "float", "none"})

\* the loop body of lines 119-130 for one element; element["x"] of a key that
\* is not there raises KeyError
ValidateElement(e) ==
    IF ~ElementSchemaOk(e)
    THEN IF e.key = Omitted THEN Raise("KeyError", "")
         ELSE Raise("ValidationError", e.key.s)
    ELSE IF e.scale = Omitted \/ e.offset = Omitted THEN Raise("KeyError", "")
    ELSE IF (e.scale = None) # (e.offset = None)
         THEN IF e.key = Omitted THEN Raise("KeyError", "")
              ELSE Raise("ValueError", e.key.s)
    ELSE Return(None)

\* SUCCESS = True
SUCCESS == [t |-> "bool", n |-> 1, s |-> ""]

RECURSIVE ValidateFrom(_, _)
ValidateFrom(seq, i) ==
    IF i > Len(seq) THEN Return(None)
    ELSE IF ValidateElement(seq[i]).raised THEN ValidateElement(seq[i])
    ELSE ValidateFrom(seq, i + 1)

validate_mapping_dict(m) ==
    IF ~FileSchemaOk(m) THEN Raise("ValidationError", "")
    ELSE IF m.shape = "no_sequence" THEN Raise("KeyError", "")
    ELSE IF ValidateFrom(m.sequence, 1).raised THEN ValidateFrom(m.sequence, 1)
    ELSE Return(SUCCESS)

\* ------------------------------------------------- encode: type coercion

\* codes_get_native_type(bufr_msg, key): fixed by the BUFR tables per key
NativeType(key) ==
    IF key = "ki" THEN "int" ELSE IF key = "kf" THEN "float" ELSE "str"

\* int(round(value)) of a float: Python rounds halves to the even neighbour
RoundHalfEven(h) ==
    IF h % 2 = 0 THEN h \div 2
    ELSE IF ((h - 1) \div 2) % 2 = 0 THEN (h - 1) \div 2 ELSE (h + 1) \div 2

\* int("7") / float("7"): the numeric strings of the model's value domain
NumericStrings == {"0", "7"}
ParseDigits(x) == IF x = "0" THEN 0 ELSE 7

\* lines 247-262: the value codes_set receives for a key of native type nt
Coerce(nt, value) ==
    IF nt = "int" /\ value.t # "int"
    THEN IF value.t = "float" THEN Return(IntV(RoundHalfEven(value.n)))
         ELSE IF value.t = "str" /\ value.s \in NumericStrings
              THEN Return(IntV(ParseDigits(value.s)))
         ELSE Raise("ValueError", "")
    ELSE IF nt = "float" /\ value.t # "float"
    THEN IF value.t = "int" THEN Return(FloatV(value.n))
         ELSE IF value.t = "str" /\ value.s \in NumericStrings
              THEN Return(FloatV(2 * ParseDigits(value.s)))
         ELSE Raise("ValueError", "")
    ELSE Return(value)

\* hashlib.md5(msg.read()).hexdigest(): a digest, taken to be free of
\* collisions on the payloads of the model
Md5Hex(payload) == [md5 |-> payload]

\* the bytes codes_write produces: fixed by the values set on the handle
Payload(log) == [i \in 1..Len(log) |-> [key |-> log[i].key, value |-> log[i].sent]]

\* ------------------------------------------------------------ input domains

MaxSeqLen == 2      \* longest mappings["sequence"]
MaxRows == 2        \* most data rows in the csv text
MaxCells == 2       \* most cells in one data row

\* column names: "a" is the csv column, "s" a station column, "z" is in neither
Cols == {"a", "s", "z"}

Elem(k, v, c, lo, hi, sc, off) ==
    [key |-> k, value |-> v, column |-> c, valid_min |-> lo, valid_max |-> hi,
     scale |-> sc, offset |-> off]

FieldMappings ==
    { Elem(StrV("ki"), None, StrV("a"), IntV(0), IntV(6), None, None),
      Elem(StrV("kf"), None, StrV("a"), None, None, IntV(1), IntV(1)),
      Elem(StrV("ki"), FloatV(3), StrV("z"), None, IntV(1), None, None),
      Elem(StrV("kf"), IntV(4), StrV("a"), None, None, None, None),
      Elem(StrV("ks"), None, None, None, None, None, None),
      Elem(StrV("ks"), ListV("l"), None, None, None, None, None),
      Elem(StrV("kf"), StrV("7"), None, None, None, None, None),
      Elem(StrV("ki"), None, StrV("s"), None, None, None, None) }

\* elements a mapping file may hold that transform cannot work with
BrokenFieldMappings ==
    { Elem(StrV("ki"), None, StrV("a"), None, None, IntV(1), None),
      Elem(StrV("ki"), None, StrV("a"), None, None, Omitted, Omitted),
      Elem(StrV("ki"), Omitted, StrV("a"), None, None, None, None),
      Elem(StrV("ki"), None, StrV("a"), Omitted, None, None, None) }

SeqsUpTo(S, n) == UNION {[1..k -> S] : k \in 0..n}

Mapping(idrf, seq) == [idrf |-> idrf, shape |-> "array", sequence |-> seq]

Mappings ==
    {Mapping(i, q) : i \in {None, ListV("r")}, q \in SeqsUpTo(FieldMappings, MaxSeqLen)}
    \cup {Mapping(None, <<e>>) : e \in BrokenFieldMappings}
    \cup {Mapping(Omitted, <<e>>) : e \in FieldMappings}

NoColumns == [c \in Cols |-> Omitted]

\* station_metadata: with or without its 'data' dictionary
Stations ==
    { [has_data |-> FALSE, data |-> NoColumns],
      [has_data |-> TRUE, data |-> NoColumns],
      [has_data |-> TRUE, data |-> [NoColumns EXCEPT !["s"] = StrV("7")]],
      [has_data |-> TRUE, data |-> [NoColumns EXCEPT !["s"] = StrV("x")]] }

\* csv.reader(..., quoting=csv.QUOTE_NONNUMERIC): unquoted cells are floats
Cells == {FloatV(4), FloatV(40), StrV("NA")}
Rows == SeqsUpTo(Cells, MaxCells)
Headers == {<<"a">>}

\* ------------------------------------------------------ transform: helpers

Min(a, b) == IF a < b THEN a ELSE b

\* dict(zip(col_names, data)): pairs up to the shorter of the two, a later
\* pair of the same name wins
Zip(names, data) ==
    [c \in Cols |->
        LET at == {i \in 1..Min(Len(names), Len(data)) : names[i] = c}
        IN IF at = {} THEN Omitted
           ELSE data[CHOOSE i \in at : \A j \in at : j <= i]]

\* {**data_dict, **station_metadata['data']}
Merge(dd, extra) == [c \in Cols |-> IF extra[c] # Omitted THEN extra[c] ELSE dd[c]]

\* lines 337-354: the value of one element before validation
Resolve(element, dd) ==
    IF element.value = Omitted \/ element.column = Omitted THEN Raise("KeyError", "")
    ELSE IF element.value # None THEN Return(element.value)
    ELSE IF element.column # None
    THEN IF dd[element.column.s] = Omitted
         THEN Raise("ValueError: column not found", element.column.s)
         ELSE IF dd[element.column.s] \in MISSING THEN Return(None)
         ELSE Return(apply_scaling(dd[element.column.s], element))
    ELSE Return(None)

\* lines 337-360: resolve, scale and validate one element
TransformField(element, dd) ==
    IF Resolve(element, dd).raised THEN Resolve(element, dd)
    ELSE IF Omitted \in {element.key, element.valid_min, element.valid_max}
    THEN Raise("KeyError", "")
    ELSE validate_value(element.key.s, Resolve(element, dd).value,
                        element.valid_min, element.valid_max, NULLIFY_INVALID)

\* lines 364-365: the write back into data_dict
UpdateDict(element, dd, value) ==
    IF element.column # None THEN [dd EXCEPT ![element.column.s] = value] ELSE dd

EncodeResolveColumnFirst(element, dd) ==
    IF element.column # None THEN dd[element.column.s]
    ELSE IF element.value # None THEN element.value
    ELSE None

\* lines 225-233: the value encode takes for one element
EncodeResolve(element, dd) ==
    IF element.value # None THEN element.value
    ELSE IF element.column # None THEN dd[element.column.s]
    ELSE None

\* ------------------------------------------------------------- transform

NoCall == Return(None)

Init ==
    /\ mappings \in Mappings
    /\ station \in Stations
    /\ pc = "start"
    /\ err = ""
    /\ col_names = <<>>
    /\ rows_read = 0
    /\ cur_len = 0
    /\ data_dict = NoColumns
    /\ fi = 1
    /\ own = <<>>
    /\ calls = <<>>
    /\ acquired = 0
    /\ released = 0
    /\ messages = {}
    /\ produced = {}
    /\ arg = None
    /\ ret = NoCall

Sequence == mappings.sequence

\* an exception leaves transform: nothing else changes any more
Fail(kind) ==
    /\ pc' = "failed"
    /\ err' = kind

\* lines 306-309
ValidateMapping ==
    /\ pc = "start"
    /\ IF validate_mapping_dict(mappings).raised
       THEN Fail(validate_mapping_dict(mappings).error)
       ELSE pc' = "header" /\ err' = err
    /\ UNCHANGED <<mappings, station, col_names, rows_read, cur_len, data_dict,
                   fi, own, calls, acquired, released, messages, produced, arg, ret>>

\* lines 323-325 and 376: the first row gives the column names
ReadHeader ==
    /\ pc = "header"
    /\ \E h \in Headers : col_names' = h
    /\ rows_read' = 1
    /\ pc' = "read"
    /\ UNCHANGED <<mappings, station, err, cur_len, data_dict, fi, own, calls,
                   acquired, released, messages, produced, arg, ret>>

\* lines 326-334: a data row is zipped with the column names and merged with
\* the station metadata
ReadRow ==
    /\ pc = "read"
    /\ rows_read <= MaxRows
    /\ \E row \in Rows :
        /\ cur_len' = Len(row)
        /\ IF ~station.has_data
           THEN /\ Fail("KeyError")
                /\ UNCHANGED <<data_dict, fi, own>>
           ELSE /\ data_dict' = Merge(Zip(col_names, row), station.data)
                /\ fi' = 1
                /\ own' = <<>>
                /\ pc' = IF Len(Sequence) = 0 THEN "encode_new" ELSE "field"
                /\ err' = err
    /\ UNCHANGED <<mappings, station, col_names, rows_read, calls, acquired,
                   released, messages, produced, arg, ret>>

\* lines 336-366: one pass of the loop over mappings["sequence"]
ProcessField ==
    /\ pc = "field"
    /\ LET element == Sequence[fi]
           r == TransformField(element, data_dict)
       IN IF r.raised
          THEN /\ Fail(r.error)
               /\ UNCHANGED <<data_dict, fi, own>>
          ELSE /\ data_dict' = UpdateDict(element, data_dict, r.value)
               /\ own' = Append(own, r.value)
               /\ fi' = IF fi = Len(Sequence) THEN 1 ELSE fi + 1
               /\ pc' = IF fi = Len(Sequence) THEN "encode_new" ELSE "field"
               /\ err' = err
    /\ UNCHANGED <<mappings, station, col_names, rows_read, cur_len, calls,
                   acquired, released, messages, produced, arg, ret>>

\* ---------------------------------------------------------------- encode

Call(op, i, key, raw, sent) ==
    [op |-> op, idx |-> i, key |-> key, raw |-> raw, sent |-> sent]

PcAfterNewSkipsReplication == "encode_field"

\* encode goes from line 213 to the replication factors of lines 216-218
PcAfterNew == "encode_idrf"

\* line 213: codes_bufr_new_from_samples("BUFR4")
EncodeNew ==
    /\ pc = "encode_new"
    /\ \E ok \in BOOLEAN :
        IF ok
        THEN /\ acquired' = acquired + 1
             /\ calls' = <<>>
             /\ pc' = IF PcAfterNew = "encode_field" /\ Len(Sequence) = 0
                      THEN "encode_pack" ELSE PcAfterNew
             /\ err' = err
        ELSE /\ Fail("EncoderError")
             /\ UNCHANGED <<acquired, calls>>
    /\ UNCHANGED <<mappings, station, col_names, rows_read, cur_len, data_dict,
                   fi, own, released, messages, produced, arg, ret>>

\* lines 216-218
EncodeSetReplication ==
    /\ pc = "encode_idrf"
    /\ IF mappings.idrf = Omitted
       THEN /\ Fail("KeyError")
            /\ UNCHANGED calls
       ELSE IF mappings.idrf # None
       THEN \E ok \in BOOLEAN :
              IF ok
              THEN /\ calls' = Append(calls,
                          Call("set_array", 0, "inputDelayedDescriptorReplicationFactor",
                               mappings.idrf, mappings.idrf))
                   /\ pc' = IF Len(Sequence) = 0 THEN "encode_pack" ELSE "encode_field"
                   /\ err' = err
              ELSE /\ Fail("EncoderError")
                   /\ UNCHANGED calls
       ELSE /\ pc' = IF Len(Sequence) = 0 THEN "encode_pack" ELSE "encode_field"
            /\ err' = err
            /\ UNCHANGED calls
    /\ UNCHANGED <<mappings, station, col_names, rows_read, cur_len, data_dict,
                   fi, own, acquired, released, messages, produced, arg, ret>>

\* lines 223-266: one pass of the loop over mapping_dict["sequence"]
EncodeField ==
    /\ pc = "encode_field"
    /\ LET element == Sequence[fi]
           key == element.key.s
           value == EncodeResolve(element, data_dict)
           coerced == Coerce(NativeType(key), value)
           next == /\ fi' = IF fi = Len(Sequence) THEN 1 ELSE fi + 1
                   /\ pc' = IF fi = Len(Sequence) THEN "encode_pack" ELSE "encode_field"
                   /\ err' = err
       IN IF value = Omitted
          THEN Fail("KeyError") /\ UNCHANGED <<calls, fi>>
          ELSE IF value = None
          THEN next /\ UNCHANGED calls
          ELSE IF value.t = "list"
          THEN \E ok \in BOOLEAN :
                 IF ok
                 THEN next /\ calls' = Append(calls, Call("set_array", fi, key, value, value))
                 ELSE Fail("EncoderError") /\ UNCHANGED <<calls, fi>>
          ELSE IF coerced.raised
          THEN Fail(coerced.error) /\ UNCHANGED <<calls, fi>>
          ELSE \E ok \in BOOLEAN :
                 IF ok
                 THEN next /\ calls' = Append(calls, Call("set", fi, key, value, coerced.value))
                 ELSE Fail("EncoderError") /\ UNCHANGED <<calls, fi>>
    /\ UNCHANGED <<mappings, station, col_names, rows_read, cur_len, data_dict,
                   own, acquired, released, messages, produced, arg, ret>>

\* lines 271-275: codes_set(bufr_msg, "pack", True)
EncodePack ==
    /\ pc = "encode_pack"
    /\ \E ok \in BOOLEAN :
        IF ok THEN pc' = "encode_write" /\ err' = err
        ELSE Fail("EncoderError")
    /\ UNCHANGED <<mappings, station, col_names, rows_read, cur_len, data_dict,
                   fi, own, calls, acquired, released, messages, produced, arg, ret>>

\* lines 280-292: codes_write, then codes_release
EncodeWrite ==
    /\ pc = "encode_write"
    /\ \E ok \in BOOLEAN :
        IF ok
        THEN /\ released' = released + 1
             /\ pc' = "store"
             /\ err' = err
        ELSE /\ Fail("EncoderError")
             /\ UNCHANGED released
    /\ UNCHANGED <<mappings, station, col_names, rows_read, cur_len, data_dict,
                   fi, own, calls, acquired, messages, produced, arg, ret>>

MessageKeyOfEmptyRead(payload) == Md5Hex(<<>>)

\* line 371: key = hashlib.md5(msg.read()).hexdigest()
MessageKey(payload) == Md5Hex(payload)

\* lines 370-376: messages[key] = msg
StoreMessage ==
    /\ pc = "store"
    /\ LET msg == Payload(calls)
           key == MessageKey(msg)
       IN /\ messages' = {e \in messages : e.key # key} \cup {[key |-> key, msg |-> msg]}
          /\ produced' = produced \cup {msg}
    /\ calls' = <<>>
    /\ rows_read' = rows_read + 1
    /\ pc' = "read"
    /\ UNCHANGED <<mappings, station, err, col_names, cur_len, data_dict, fi, own,
                   acquired, released, arg, ret>>

\* lines 378-380: the reader is exhausted
Finish ==
    /\ pc \in {"header", "read"}
    /\ pc' = "done"
    /\ UNCHANGED <<mappings, station, err, col_names, rows_read, cur_len, data_dict,
                   fi, own, calls, acquired, released, messages, produced, arg, ret>>

Next ==
    \/ ValidateMapping
    \/ ReadHeader
    \/ ReadRow
    \/ ProcessField
    \/ EncodeNew
    \/ EncodeSetReplication
    \/ EncodeField
    \/ EncodePack
    \/ EncodeWrite
    \/ StoreMessage
    \/ Finish

Spec == Init /\ [][Next]_vars

\* ------------------------------------------ validate_value called directly

MaxNum == 3         \* largest number handed to validate_value

Numbers == {IntV(i) : i \in -1..MaxNum} \cup {FloatV(h) : h \in -2..(2 * MaxNum)}
ValueArgs == {None, StrV("x"), ListV("l")} \cup Numbers
BoundArgs == {None, IntV(0), IntV(2), FloatV(3)}

ValidateValueArgs ==
    [key : {"ki"}, value : ValueArgs, valid_min : BoundArgs, valid_max : BoundArgs,
     nullify_on_fail : BOOLEAN]

\* the transform variables, at rest while a function is called directly
AtRest ==
    /\ mappings = Mapping(None, <<>>)
    /\ station = [has_data |-> TRUE, data |-> NoColumns]
    /\ err = ""
    /\ col_names = <<>>
    /\ rows_read = 0
    /\ cur_len = 0
    /\ data_dict = NoColumns
    /\ fi = 1
    /\ own = <<>>
    /\ calls = <<>>
    /\ acquired = 0
    /\ released = 0
    /\ messages = {}
    /\ produced = {}

InitValidateValue ==
    /\ AtRest
    /\ pc = "vv_call"
    /\ arg \in ValidateValueArgs
    /\ ret = NoCall

CallValidateValue ==
    /\ pc = "vv_call"
    /\ ret' = validate_value(arg.key, arg.value, arg.valid_min, arg.valid_max,
                             arg.nullify_on_fail)
    /\ pc' = "vv_done"
    /\ UNCHANGED <<mappings, station, err, col_names, rows_read, cur_len, data_dict,
                   fi, own, calls, acquired, released, messages, produced, arg>>

NextValidateValue == CallValidateValue

SpecValidateValue == InitValidateValue /\ [][NextValidateValue]_vars

\* ------------------------------------ validate_mapping_dict called directly

SchemaElements ==
    {Elem(StrV(k), None, StrV("a"), None, None, sc, off) :
        k \in {"ki", "kf"}, sc \in {None, IntV(1), Omitted}, off \in {None, IntV(0), Omitted}}
    \cup { Elem(StrV("ki"), None, StrV("a"), None, None, StrV("x"), None),
           Elem(StrV("kf"), None, IntV(1), None, None, None, None),
           Elem(Omitted, None, StrV("a"), None, None, IntV(1), None),
           Elem(StrV("ki"), Omitted, Omitted, Omitted, Omitted, None, None) }

SchemaMappings ==
    {Mapping(i, q) : i \in {None, ListV("r"), Omitted, IntV(1)},
                     q \in SeqsUpTo(SchemaElements, MaxSeqLen)}
    \cup {[idrf |-> None, shape |-> sh, sequence |-> <<>>] :
            sh \in {"no_sequence", "bad_sequence"}}

InitValidateMapping ==
    /\ AtRest
    /\ pc = "vm_call"
    /\ arg \in SchemaMappings
    /\ ret = NoCall

CallValidateMapping ==
    /\ pc = "vm_call"
    /\ ret' = validate_mapping_dict(arg)
    /\ pc' = "vm_done"
    /\ UNCHANGED <<mappings, station, err, col_names, rows_read, cur_len, data_dict,
                   fi, own, calls, acquired, released, messages, produced, arg>>

NextValidateMapping == CallValidateMapping

SpecValidateMapping == InitValidateMapping /\ [][NextValidateMapping]_vars

\* ------------------------------------------------------------------ claims

FieldCalls == {i \in 1..Len(calls) : calls[i].idx > 0}
CallsFor(f) == {i \in 1..Len(calls) : calls[i].idx = f}
Encoding == pc \in {"encode_idrf", "encode_field", "encode_pack", "encode_write"}
RowStates == {"field", "encode_new", "encode_idrf", "encode_field", "encode_pack",
              "encode_write", "store"}
IsLiteral(e) == e.value # None
IsColumnSourced(e) == e.value = None /\ e.column # None

\* C1: when inputDelayedDescriptorReplicationFactor is non-null it is set on
\* the handle, after the handle is acquired, before the first field value:
\* it is the first call on the handle and every field call comes after it
C1_ReplicationBeforeFields ==
    /\ (Encoding /\ calls # <<>>) => acquired = released + 1
    /\ (mappings.idrf # None /\ pc \in {"encode_field", "encode_pack", "encode_write"})
          => (calls # <<>> /\ calls[1].idx = 0 /\ calls[1].sent = mappings.idrf)
    /\ \A i \in FieldCalls :
          mappings.idrf # None => (i > 1 /\ calls[1].idx = 0)

\* C1 witness: a field value set on a handle whose replication factors are set
C1_Witness ==
    /\ mappings.idrf # None
    /\ Len(calls) >= 2
    /\ calls[1].idx = 0
    /\ calls[2].idx > 0

\* a number below a bound that is there, or above one
C2_Violates(a) ==
    \/ a.valid_min # None /\ a.value.n < a.valid_min.n
    \/ a.valid_max # None /\ a.value.n > a.valid_max.n

\* C2: validate_value returns None for None, the value for a non-number, the
\* value for a number within the bounds that are there, and for a number
\* below min or above max None under nullify_on_fail and an error otherwise
C2_ValidateValueContract ==
    pc = "vv_done" =>
        IF arg.value = None THEN ~ret.raised /\ ret.value = None
        ELSE IF ~IsNumber(arg.value) THEN ~ret.raised /\ ret.value = arg.value
        ELSE IF ~C2_Violates(arg) THEN ~ret.raised /\ ret.value = arg.value
        ELSE IF arg.nullify_on_fail THEN ~ret.raised /\ ret.value = None
        ELSE ret.raised

\* C2 witness: a number above valid-max, with no valid-min, raised as an error
C2_Witness ==
    /\ pc = "vv_done"
    /\ IsNumber(arg.value)
    /\ arg.valid_min = None
    /\ arg.valid_max # None
    /\ arg.value.n > arg.valid_max.n
    /\ ~arg.nullify_on_fail
    /\ ret.raised

\* Python's == on the values of the model: numbers compare by value
SameValue(a, b) == IF IsNumber(a) /\ IsNumber(b) THEN a.n = b.n ELSE a = b

C3_NoLookupFailure ==
    (pc = "failed" /\ err = "ValueError: column not found") => ~IsLiteral(Sequence[fi])

C3_LiteralHanded ==
    pc \in {"encode_pack", "encode_write", "store"} =>
        \A f \in 1..Len(Sequence) :
            IsLiteral(Sequence[f]) => Cardinality(CallsFor(f)) = 1

\* C3 as stated: the value handed to the encoder for a field with a non-null
\* `value` is exactly the literal
C3_LiteralHandedVerbatim ==
    /\ C3_NoLookupFailure
    /\ C3_LiteralHanded
    /\ \A i \in FieldCalls :
          IsLiteral(Sequence[calls[i].idx]) =>
              SameValue(calls[i].sent, Sequence[calls[i].idx].value)

\* C3 amended: encode takes exactly the literal for the field (no row lookup,
\* no scaling, `value` before `column`), and what the encoder receives differs
\* from it only by the coercion to the key's native type: a number of that
\* type, no further than one half from a numeric literal, or the number a
\* string literal spells
C3_LiteralHandedCoerced ==
    /\ C3_NoLookupFailure
    /\ C3_LiteralHanded
    /\ \A i \in FieldCalls :
          LET lit == Sequence[calls[i].idx].value
              nt == NativeType(calls[i].key)
          IN IsLiteral(Sequence[calls[i].idx]) =>
                /\ calls[i].raw = lit
                /\ \/ calls[i].sent = lit
                   \/ /\ lit.t # nt
                      /\ calls[i].sent.t = nt
                      /\ \/ /\ IsNumber(lit)
                            /\ calls[i].sent.n - lit.n \in {-1, 0, 1}
                         \/ /\ lit.t = "str"
                            /\ lit.s \in NumericStrings
                            /\ calls[i].sent.n = 2 * ParseDigits(lit.s)

\* C3 witness: a literal handed to the encoder for a field that also names a
\* column of the row
C3_Witness ==
    \E i \in FieldCalls :
        /\ IsLiteral(Sequence[calls[i].idx])
        /\ Sequence[calls[i].idx].column # None
        /\ data_dict[Sequence[calls[i].idx].column.s] # None
        /\ cur_len > 0

\* absent: null, or the property omitted
C4_Absent(v) == v \in {None, Omitted}

C4_WellShaped(m) ==
    /\ m.shape = "array"
    /\ m.idrf.t \in {"list", "none", "omitted"}
    /\ \A i \in 1..Len(m.sequence) :
          /\ m.sequence[i].key.t = "str"
          /\ ElementSchemaOk(m.sequence[i])

C4_Mismatched(m) ==
    {i \in 1..Len(m.sequence) :
        C4_Absent(m.sequence[i].scale) # C4_Absent(m.sequence[i].offset)}

\* C4: validate_mapping_dict succeeds when every element has scale and offset
\* jointly present or jointly absent (null or omitted), and fails naming the
\* element's key when exactly one of the two is present
C4_ValidateMappingContract ==
    (pc = "vm_done" /\ C4_WellShaped(arg)) =>
        IF C4_Mismatched(arg) = {}
        THEN ret = Return(SUCCESS)
        ELSE /\ ret.raised
             /\ \E i \in C4_Mismatched(arg) : ret.names = arg.sequence[i].key.s

\* C5: a data row whose number of cells differs from the number of column
\* names is never turned into a Row, processed or encoded
C5_MalformedRowRejected ==
    pc \in RowStates => cur_len = Len(col_names)

\* C6: every entry of messages is keyed by the digest of its own payload,
\* messages holds one entry per distinct payload produced, and never more
\* entries than data rows
C6_ContentHashKeyed ==
    /\ \A e \in messages : e.key = Md5Hex(e.msg)
    /\ {e.msg : e \in messages} = produced
    /\ Cardinality(messages) = Cardinality(produced)
    /\ Cardinality(messages) <= (IF rows_read = 0 THEN 0 ELSE rows_read - 1)

\* C6 witness: two data rows encoded to the same non-empty payload, one entry
C6_Witness ==
    /\ pc = "read"
    /\ rows_read = 3
    /\ Cardinality(messages) = 1
    /\ \E e \in messages : Len(e.msg) > 0

InRange(v, e) ==
    /\ e.valid_min # None => v.n >= e.valid_min.n
    /\ e.valid_max # None => v.n <= e.valid_max.n

\* C7: no value outside its field's valid-min / valid-max is handed to the
\* encoder
C7_NoOutOfRangeHanded ==
    \A i \in FieldCalls :
        IsNumber(calls[i].sent) => InRange(calls[i].sent, Sequence[calls[i].idx])

\* C8: a pass of transform's loop changes the Row only for a column-sourced
\* field, setting row[column] to that field's result; a field with a literal
\* or with no source leaves the Row as it is
C8_RowWrittenOnlyByColumnSourced ==
    [][(pc = "field" /\ pc' # "failed") =>
          IF IsColumnSourced(Sequence[fi])
          THEN data_dict' = [data_dict EXCEPT ![Sequence[fi].column.s] = own'[fi]]
          ELSE data_dict' = data_dict]_vars

\* C9: the encoder is called for a column-sourced field exactly when that
\* field's own resolve -> scale -> validate result is non-null, with that result
C9_OwnResultHanded ==
    /\ \A i \in FieldCalls :
          IsColumnSourced(Sequence[calls[i].idx]) => calls[i].raw = own[calls[i].idx]
    /\ pc \in {"encode_pack", "encode_write", "store"} =>
          \A f \in 1..Len(Sequence) :
              IsColumnSourced(Sequence[f]) => ((own[f] # None) <=> (CallsFor(f) # {}))

\* C10: when transform has ended, normally or by an error, every handle that
\* encode acquired has been released
C10_NoHandleLeft ==
    pc \in {"done", "failed"} => acquired = released

====
